---- MODULE Spec2Model ----
(***************************************************************************)
(* State-machine model of dbsake/distutils_ext.py: the bdist_dbsakesh      *)
(* command (DBSakeBundler) and the PEP302 source resolver (fetch_source).  *)
(* Byte strings are modelled as TLA+ strings; every string function of the *)
(* source (startswith, endswith, splitlines, partition, rstrip, replace,   *)
(* slicing) is computed character by character.                            *)
(***************************************************************************)
EXTENDS Integers, Sequences, FiniteSets, TLC

----------------------------------------------------------------------------
(* Python string primitives used by the source *)

None == "<None>"

\* s[i:] (1-based i)
StrFrom(s, i) == SubSeq(s, i, Len(s))

\* s[0:-1]
DropLast(s) == SubSeq(s, 1, Len(s) - 1)

\* s.startswith(p)
StartsWith(s, p) == Len(p) <= Len(s) /\ SubSeq(s, 1, Len(p)) = p

\* s.endswith(p)
EndsWith(s, p) == Len(p) <= Len(s) /\ SubSeq(s, Len(s) - Len(p) + 1, Len(s)) = p

\* s.find(p): 1-based index of the first occurrence of p in s, 0 when absent
RECURSIVE FindFrom(_, _, _)
FindFrom(s, p, i) ==
    IF i + Len(p) - 1 > Len(s) THEN 0
    ELSE IF SubSeq(s, i, i + Len(p) - 1) = p THEN i
    ELSE FindFrom(s, p, i + 1)

Find(s, p) == FindFrom(s, p, 1)

\* s.replace(old, new): every non-overlapping occurrence, left to right;
\* an empty old matches before every byte and at the end
RECURSIVE Replace(_, _, _)
Replace(s, old, new) ==
    IF old = ""
    THEN IF s = "" THEN new
         ELSE new \o SubSeq(s, 1, 1) \o Replace(StrFrom(s, 2), old, new)
    ELSE IF Len(s) < Len(old) THEN s
    ELSE IF StartsWith(s, old)
         THEN new \o Replace(StrFrom(s, Len(old) + 1), old, new)
         ELSE SubSeq(s, 1, 1) \o Replace(StrFrom(s, 2), old, new)

\* s.partition(sep)[2]
PartitionTail(s, sep) ==
    LET i == Find(s, sep) IN IF i = 0 THEN "" ELSE StrFrom(s, i + Len(sep))

Whitespace == {" ", "\t", "\n", "\r", "\f"}

\* s.rstrip()
RECURSIVE RStrip(_)
RStrip(s) ==
    IF s = "" THEN s
    ELSE IF SubSeq(s, Len(s), Len(s)) \in Whitespace THEN RStrip(DropLast(s))
    ELSE s

\* index of the last byte of the first line of s (line ends: \n, \r, \r\n)
RECURSIVE LineEnd(_, _)
LineEnd(s, i) ==
    IF i > Len(s) THEN Len(s)
    ELSE IF SubSeq(s, i, i) = "\n" THEN i
    ELSE IF SubSeq(s, i, i) = "\r"
         THEN IF i < Len(s) /\ SubSeq(s, i + 1, i + 1) = "\n" THEN i + 1 ELSE i
    ELSE LineEnd(s, i + 1)

\* s.splitlines(True)
RECURSIVE SplitLines(_)
SplitLines(s) ==
    IF s = "" THEN <<>>
    ELSE LET e == LineEnd(s, 1)
         IN <<SubSeq(s, 1, e)>> \o SplitLines(StrFrom(s, e + 1))

\* os.path.basename(p)
RECURSIVE Basename(_)
Basename(p) ==
    LET i == Find(p, "/") IN IF i = 0 THEN p ELSE Basename(StrFrom(p, i + 1))

\* os.path.join(a, b) for a relative b
PathJoin(a, b) == a \o "/" \o b

----------------------------------------------------------------------------
(* Version stamping, run() lines 157-166 *)

VersionPrefix == "__version__ = "

\* [x for x in data.splitlines(True) if x.startswith(b'__version__ = ')]
VersionLines(data) ==
    LET IsVersion(x) == StartsWith(x, VersionPrefix)
    IN SelectSeq(SplitLines(data), IsVersion)

\* tag = (" %s'" % self.tag)
TagSuffix(tag) == " " \o tag \o "'"

\* version[0].partition(b' = ')[2].rstrip()
VersionInfo(data) == RStrip(PartitionTail(VersionLines(data)[1], " = "))

\* the stamped bytes; raised is TRUE when version[0] raises IndexError
Stamp(data, tag) ==
    IF VersionLines(data) = <<>>
    THEN [raised |-> TRUE, data |-> None]
    ELSE LET version_info == VersionInfo(data)
             new_version == DropLast(version_info) \o TagSuffix(tag)
         IN [raised |-> FALSE, data |-> Replace(data, version_info, new_version)]

----------------------------------------------------------------------------
(* Module Source Resolver: is_excluded and fetch_source *)

\* a resolver that excludes only the exact names listed
is_excluded_exact(name, excludes) ==
    \E i \in 1..Len(excludes) : name = excludes[i]

\* is_excluded(name, excludes): name starts with any string in excludes
is_excluded(name, excludes) ==
    \E i \in 1..Len(excludes) : StartsWith(name, excludes[i])

\* path = name.replace('.', '/') + ('/__init__.py' if is_pkg else '.py')
ModulePath(name, is_pkg) ==
    Replace(name, ".", "/") \o (IF is_pkg THEN "/__init__.py" ELSE ".py")

\* the for loop over pkgutil.walk_packages: mods is what walk_packages
\* discovers, in discovery order, each with loader.get_source(name).
\* raised is TRUE when `assert source is not None` fails; the entries
\* yielded before the failure have already been handed to the consumer.
RECURSIVE WalkPackages(_, _)
WalkPackages(mods, excludes) ==
    IF mods = <<>> THEN [entries |-> <<>>, raised |-> FALSE]
    ELSE LET m == Head(mods) IN
         IF is_excluded(m.name, excludes) THEN WalkPackages(Tail(mods), excludes)
         ELSE IF m.source = None THEN [entries |-> <<>>, raised |-> TRUE]
         ELSE LET rest == WalkPackages(Tail(mods), excludes)
              IN [entries |-> <<[path |-> ModulePath(m.name, m.is_pkg),
                                 source |-> m.source]>> \o rest.entries,
                  raised |-> rest.raised]

\* fetch_source(package, excludes) driven to exhaustion: the sequence of
\* (path, source) tuples it yields, and whether it ended with an exception.
\* layout.init_source is pkgutil.get_loader(pkg).get_source(pkg.__name__).
fetch_source(package, excludes, layout) ==
    LET rest == WalkPackages(layout.modules, excludes)
    IN [entries |-> <<[path |-> package \o "/__init__.py",
                       source |-> layout.init_source]>> \o rest.entries,
        raised |-> rest.raised]

----------------------------------------------------------------------------
(* Program constants *)

SHELL_SCRIPT ==
    "#!/bin/sh\n" \o
    "if [ \"${LANG:-C}\" = \"C\" ]; then\n" \o
    "    export LANG=\"en_US.utf8\"\n" \o
    "fi\n" \o
    "\n" \o
    "python=$({ which python2.7 ||\n" \o
    "           which python2.6 ||\n" \o
    "           which python3; } 2>/dev/null)\n" \o
    "\n" \o
    "if [ $? -ne 0 ]; then\n" \o
    "    echo \"No supported python command found.\" >&2\n" \o
    "    python=$(which python 2>/dev/null)\n" \o
    "    if [ $? -eq 0 ]; then\n" \o
    "        echo \"However, found $(${python} -V 2>&1)\" >&2\n" \o
    "    fi\n" \o
    "    echo \"dbsake requires python2.6+, or python3+.\" >&2\n" \o
    "    echo \"Aborting.\" >&2\n" \o
    "    exit 1\n" \o
    "fi\n" \o
    "exec ${python} $0 $@ || exit 5\n"

\* DBSakeBundler.dependencies
dependencies ==
    << [depname |-> "click",      excludes |-> <<"click.testing">>],
       [depname |-> "jinja2",     excludes |-> <<"jinja2.testsuite">>],
       [depname |-> "markupsafe", excludes |-> <<"markupsafe._speedups",
                                                 "markupsafe.tests">>] >>

S_IXUSR == 64
S_IRUSR == 256
S_IWUSR == 128

\* a mode without the execute bit
FchmodModeNoExec == S_IRUSR + S_IWUSR

\* the mode handed to os.fchmod
FchmodMode == S_IXUSR + S_IRUSR + S_IWUSR

\* permission bits of a file freshly created by open(..., 'wb') (umask 022)
CreateMode == 420

\* os.walk('dbsake')
TopDir == "dbsake"

\* the literal of the path.endswith(...) test
InitSuffix == "dbsake/__init__.py"

----------------------------------------------------------------------------
(* Bounds and input domains *)

\* files of the primary tree besides dbsake/__init__.py
MaxFiles == 2

\* modules discovered under a package handed to fetch_source
MaxModules == 3

\* length of the excludes list handed to fetch_source
MaxExcludes == 2

File(d, n) == [dirpath |-> d, name |-> n]

PrimaryInit == File("dbsake", "__init__.py")

\* the working directory of the build and the module's own __file__
Cwd == "/src"
ModuleFile == "/src/dbsake/distutils_ext.py"

FilePool ==
    { File("dbsake", "__main__.py"),
      File("dbsake", "distutils_ext.py"),
      File("dbsake", "README.rst"),
      File("dbsake/templates", "my.cnf"),
      File("dbsake/sub", "__main__.py"),
      File("dbsake/sub", "util.py"),
      File("dbsake/mydbsake", "__init__.py"),
      File("dbsake/sub/dbsake", "__init__.py") }

AllDirs == {"dbsake", "dbsake/templates", "dbsake/sub", "dbsake/mydbsake",
            "dbsake/sub/dbsake"}

Trees ==
    { {PrimaryInit} \cup S : S \in {T \in SUBSET FilePool : Cardinality(T) <= MaxFiles} }

\* contents of dbsake/__init__.py
InitSources ==
    { "__version__ = '1.2.3'\n",
      "# dbsake\n__version__ = '1.2.3'\nX = 1\n",
      "V = '1.2.3'\n__version__ = '1.2.3'\n",
      "__version__ = '1.2.3'  \r\nY = 2\r\n",
      "__version__ = '1'\n__version__ = '2'\n",
      "X = 1\n" }

\* contents of the __init__.py of a nested package
NestedSources == { "__version__ = '0.1'\n", "" }

InitFiles(t) == {f \in t : f.name = "__init__.py"}

Module(n, p, s) == [name |-> n, is_pkg |-> p, source |-> s]

SourceOf(name) == "source of " \o name

\* what the three dependencies look like to pkgutil in a sane environment
DefaultCatalog ==
    [d \in {"click", "jinja2", "markupsafe"} |->
       CASE d = "click" ->
              [init_source |-> SourceOf("click"),
               modules |-> << Module("click.core", FALSE, SourceOf("click.core")),
                              Module("click.testing", FALSE, SourceOf("click.testing")) >>]
         [] d = "jinja2" ->
              [init_source |-> SourceOf("jinja2"),
               modules |-> << Module("jinja2.testsuite", TRUE, SourceOf("jinja2.testsuite")),
                              Module("jinja2.testsuite.api", FALSE, SourceOf("jinja2.testsuite.api")),
                              Module("jinja2.utils", FALSE, SourceOf("jinja2.utils")) >>]
         [] d = "markupsafe" ->
              [init_source |-> SourceOf("markupsafe"),
               modules |-> << Module("markupsafe._speedups", FALSE, None),
                              Module("markupsafe._native", FALSE, SourceOf("markupsafe._native")) >>]]

\* environments in which a dependency does not ship as pure source
Layouts(d) ==
    { DefaultCatalog[d],
      [DefaultCatalog[d] EXCEPT !.init_source = None],
      [DefaultCatalog[d] EXCEPT !.modules = @ \o <<Module(d \o "._cext", FALSE, None)>>] }

Catalogs == { c \in [{"click", "jinja2", "markupsafe"} -> UNION {Layouts(d) : d \in {"click", "jinja2", "markupsafe"}}] :
                \A d \in DOMAIN c : c[d] \in Layouts(d) }

Tags == {"rc1"}
DistDirs == {"out"}

\* inputs of a direct call of fetch_source
FetchPackages == {"pkg"}

ModulePool ==
    { Module("pkg.a", FALSE, SourceOf("pkg.a")),
      Module("pkg.b", FALSE, None),
      Module("pkg.tests", TRUE, SourceOf("pkg.tests")),
      Module("pkg.tests.t1", FALSE, SourceOf("pkg.tests.t1")),
      Module("pkg.tests_util", FALSE, SourceOf("pkg.tests_util")),
      Module("pkg.sub", TRUE, SourceOf("pkg.sub")) }

ExcludePool == {"pkg.tests", "pkg.a", "pkg.sub.", "pkg", ""}

RECURSIVE SeqsUpTo(_, _)
SeqsUpTo(S, n) ==
    IF n = 0 THEN {<<>>}
    ELSE LET shorter == SeqsUpTo(S, n - 1)
         IN shorter \cup {Append(q, x) : q \in shorter, x \in S}

NoRepeat(q) == \A i, j \in 1..Len(q) : i # j => q[i] # q[j]

\* walk_packages only descends into packages it has already yielded
ParentFirst(q) ==
    \A j \in 1..Len(q) : \A m \in ModulePool :
        (m.is_pkg /\ StartsWith(q[j].name, m.name \o ".")) =>
            \E i \in 1..(j - 1) : q[i] = m

FetchLayouts ==
    { [init_source |-> s, modules |-> q] :
        s \in {SourceOf("pkg"), None},
        q \in {r \in SeqsUpTo(ModulePool, MaxModules) : NoRepeat(r) /\ ParentFirst(r)} }

NoCall == [package |-> None, excludes |-> <<>>, layout |-> None]

----------------------------------------------------------------------------
(* State *)

VARIABLES
    pc,          \* position in the command's life cycle / in run()
    tag,         \* self.tag
    dist_dir,    \* self.dist_dir
    tree,        \* files below ./dbsake
    initSrc,     \* contents of the __init__.py files of the tree
    catalog,     \* what pkgutil finds for each dependency
    dirEnsured,  \* os.makedirs has returned or raised EEXIST
    fileOpen,    \* fileobj is open
    mode,        \* permission bits of dist_dir/dbsake.sh, 0 while absent
    output,      \* chunks written to fileobj, in order
    zip,         \* the ZipFile: "none", "open" or "closed"
    remaining,   \* files os.walk has not handed out yet
    curdir,      \* dirpath of the current os.walk iteration
    depIdx,      \* index into self.dependencies
    gen,         \* the running fetch_source generator
    err,         \* the exception propagating out of run(), None if none
    message,     \* what has been printed to stderr
    fetchCall,   \* arguments of a direct fetch_source call
    fetchResult  \* what that call yielded

vars == <<pc, tag, dist_dir, tree, initSrc, catalog, dirEnsured, fileOpen, mode,
          output, zip, remaining, curdir, depIdx, gen, err, message,
          fetchCall, fetchResult>>

envVars == <<tree, initSrc, catalog, fetchCall, fetchResult>>

NoGen == [active |-> FALSE, entries |-> <<>>, raised |-> FALSE]

Chunk(kind, arcname, data, src, via) ==
    [kind |-> kind, arcname |-> arcname, data |-> data, src |-> src, via |-> via]

Path(f) == PathJoin(f.dirpath, f.name)

\* os.path.abspath(path) for a path relative to the working directory
AbsPath(path) == PathJoin(Cwd, path)

\* what open(path, 'rb').read() and archive.write(path, ...) find in the file
FileData(f) ==
    IF f \in DOMAIN initSrc THEN initSrc[f] ELSE "contents of " \o Path(f)

\* lines 145-147: the file passes the suffix/templates filter
Included(f) == EndsWith(f.name, ".py") \/ Basename(f.dirpath) = "templates"

\* lines 149-151: don't include distutils_ext in executable
IsSelf(f) == AbsPath(Path(f)) = ModuleFile

\* an archive name that never relocates __main__.py
ArcNameKeepsPath(path, name) == path

\* lines 152-155
ArcName(path, name) == IF name # "__main__.py" THEN path ELSE name

\* line 156
IsStamped(path) == EndsWith(path, InitSuffix)

\* an __exit__ that leaves the archive as it is
ZipFileExitLeaves(z) == z

\* ZipFile.__exit__: self.close()
ZipFileExit(z) == "closed"

\* e is d or lies below d
Under(d, e) == e = d \/ StartsWith(e, d \o "/")

\* os.walk is top-down and depth-first; the order of the names inside one
\* directory is the order of os.listdir, which is arbitrary
CanVisit(f) ==
    /\ f \in remaining
    /\ \A g \in remaining : ~(g.dirpath # f.dirpath /\ Under(g.dirpath, f.dirpath))
    /\ \A d \in AllDirs :
          (Under(d, curdir) /\ \E g \in remaining : Under(d, g.dirpath))
              => Under(d, f.dirpath)

Entries == SelectSeq(output, LAMBDA c : c.kind = "entry")

----------------------------------------------------------------------------
(* Initial states *)

RunInputs ==
    /\ tree \in Trees
    /\ initSrc \in [InitFiles(tree) -> InitSources \cup NestedSources]
    /\ initSrc[PrimaryInit] \in InitSources
    /\ \A f \in InitFiles(tree) \ {PrimaryInit} : initSrc[f] \in NestedSources
    /\ catalog \in Catalogs
    /\ (tree = {PrimaryInit} /\ initSrc[PrimaryInit] = "__version__ = '1.2.3'\n")
          \/ catalog = DefaultCatalog

Fresh ==
    /\ tag = None
    /\ dist_dir = None
    /\ dirEnsured = FALSE
    /\ fileOpen = FALSE
    /\ mode = 0
    /\ output = <<>>
    /\ zip = "none"
    /\ remaining = {}
    /\ curdir = TopDir
    /\ depIdx = 1
    /\ gen = NoGen
    /\ err = None
    /\ message = None

Init ==
    /\ pc = "initialize_options"
    /\ RunInputs
    /\ Fresh
    /\ fetchCall = NoCall
    /\ fetchResult = None

InitFetch ==
    /\ pc = "fetch_source"
    /\ tree = {}
    /\ initSrc = <<>>
    /\ catalog = DefaultCatalog
    /\ Fresh
    /\ fetchCall \in [package : FetchPackages,
                      excludes : {q \in SeqsUpTo(ExcludePool, MaxExcludes) : NoRepeat(q)},
                      layout : FetchLayouts]
    /\ fetchResult = None

----------------------------------------------------------------------------
(* The command's options *)

\* initialize_options, lines 121-123
initialize_options ==
    /\ pc = "initialize_options"
    /\ dist_dir' = None
    /\ tag' = ""
    /\ pc' = "options"
    /\ UNCHANGED <<envVars, dirEnsured, fileOpen, mode, output, zip, remaining,
                   curdir, depIdx, gen, err, message>>

\* distutils assigns the --dist-dir/--tag values given on the command line
\* (user_options, lines 107-112); an option not given keeps its default
SetOptions ==
    /\ pc = "options"
    /\ \E d \in {dist_dir} \cup DistDirs, t \in {tag} \cup Tags :
          /\ dist_dir' = d
          /\ tag' = t
    /\ pc' = "finalize_options"
    /\ UNCHANGED <<envVars, dirEnsured, fileOpen, mode, output, zip, remaining,
                   curdir, depIdx, gen, err, message>>

\* finalize_options, lines 125-127
finalize_options ==
    /\ pc = "finalize_options"
    /\ dist_dir' = IF dist_dir = None THEN "dist" ELSE dist_dir
    /\ pc' = "makedirs"
    /\ UNCHANGED <<envVars, tag, dirEnsured, fileOpen, mode, output, zip,
                   remaining, curdir, depIdx, gen, err, message>>

----------------------------------------------------------------------------
(* run(), lines 129-174 *)

OutputName == PathJoin(dist_dir, "dbsake.sh")

\* lines 130-134: os.makedirs succeeds or raises EEXIST, which is tolerated
Makedirs ==
    /\ pc = "makedirs"
    /\ dirEnsured' = TRUE
    /\ pc' = "open"
    /\ UNCHANGED <<envVars, tag, dist_dir, fileOpen, mode, output, zip,
                   remaining, curdir, depIdx, gen, err, message>>

\* lines 130-134: os.makedirs raises another OSError, which is re-raised
MakedirsFails ==
    /\ pc = "makedirs"
    /\ err' = "OSError"
    /\ pc' = "failed"
    /\ UNCHANGED <<envVars, tag, dist_dir, dirEnsured, fileOpen, mode, output,
                   zip, remaining, curdir, depIdx, gen, message>>

\* line 135: open(..., 'wb') creates or truncates the output file
OpenOutput ==
    /\ pc = "open"
    /\ fileOpen' = TRUE
    /\ mode' = CreateMode
    /\ output' = <<>>
    /\ pc' = "fchmod"
    /\ UNCHANGED <<envVars, tag, dist_dir, dirEnsured, zip, remaining, curdir,
                   depIdx, gen, err, message>>

\* lines 136-137
Fchmod ==
    /\ pc = "fchmod"
    /\ mode' = FchmodMode
    /\ pc' = "header"
    /\ UNCHANGED <<envVars, tag, dist_dir, dirEnsured, fileOpen, output, zip,
                   remaining, curdir, depIdx, gen, err, message>>

\* line 138
WriteHeader ==
    /\ pc = "header"
    /\ output' = Append(output, Chunk("header", "", SHELL_SCRIPT, "", "fileobj.write"))
    /\ pc' = "zipfile"
    /\ UNCHANGED <<envVars, tag, dist_dir, dirEnsured, fileOpen, mode, zip,
                   remaining, curdir, depIdx, gen, err, message>>

\* lines 139-143: the archive is opened on fileobj and os.walk starts
OpenArchive ==
    /\ pc = "zipfile"
    /\ zip' = "open"
    /\ remaining' = tree
    /\ curdir' = TopDir
    /\ pc' = "walk"
    /\ UNCHANGED <<envVars, tag, dist_dir, dirEnsured, fileOpen, mode, output,
                   depIdx, gen, err, message>>

\* an exception leaves the body of the innermost with statement
Raise(e) ==
    /\ err' = e
    /\ pc' = "archive_exit"

Visit(f) ==
    /\ pc = "walk"
    /\ CanVisit(f)
    /\ remaining' = remaining \ {f}
    /\ curdir' = f.dirpath

\* lines 145-151: the file is filtered out
SkipFile ==
    \E f \in tree :
        /\ Visit(f)
        /\ ~Included(f) \/ IsSelf(f)
        /\ UNCHANGED <<envVars, tag, dist_dir, dirEnsured, fileOpen, mode,
                       output, zip, depIdx, gen, err, message, pc>>

\* line 169: archive.write(path, arcname)
WriteFile ==
    \E f \in tree :
        /\ Visit(f)
        /\ Included(f) /\ ~IsSelf(f) /\ ~IsStamped(Path(f))
        /\ output' = Append(output, Chunk("entry", ArcName(Path(f), f.name),
                                           FileData(f), Path(f), "archive.write"))
        /\ UNCHANGED <<envVars, tag, dist_dir, dirEnsured, fileOpen, mode, zip,
                       depIdx, gen, err, message, pc>>

\* line 169: archive.write raises (the file cannot be read, the disk is full)
WriteFileFails ==
    \E f \in tree :
        /\ Visit(f)
        /\ Included(f) /\ ~IsSelf(f) /\ ~IsStamped(Path(f))
        /\ Raise("IOError")
        /\ UNCHANGED <<envVars, tag, dist_dir, dirEnsured, fileOpen, mode,
                       output, zip, depIdx, gen, message>>

\* lines 156-167: the version is stamped and the result written with writestr
StampInit ==
    \E f \in tree :
        /\ Visit(f)
        /\ Included(f) /\ ~IsSelf(f) /\ IsStamped(Path(f))
        /\ ~Stamp(FileData(f), tag).raised
        /\ output' = Append(output, Chunk("entry", ArcName(Path(f), f.name),
                                           Stamp(FileData(f), tag).data, Path(f),
                                           "archive.writestr"))
        /\ UNCHANGED <<envVars, tag, dist_dir, dirEnsured, fileOpen, mode, zip,
                       depIdx, gen, err, message, pc>>

\* line 163: version[0] raises IndexError, no version line was found
MissingVersion ==
    \E f \in tree :
        /\ Visit(f)
        /\ Included(f) /\ ~IsSelf(f) /\ IsStamped(Path(f))
        /\ Stamp(FileData(f), tag).raised
        /\ Raise("IndexError")
        /\ UNCHANGED <<envVars, tag, dist_dir, dirEnsured, fileOpen, mode,
                       output, zip, depIdx, gen, message>>

\* os.walk is exhausted
WalkDone ==
    /\ pc = "walk"
    /\ remaining = {}
    /\ pc' = "deps"
    /\ UNCHANGED <<envVars, tag, dist_dir, dirEnsured, fileOpen, mode, output,
                   zip, remaining, curdir, depIdx, gen, err, message>>

\* line 172: fetch_source is called for the next dependency
DepStart ==
    /\ pc = "deps"
    /\ ~gen.active
    /\ depIdx <= Len(dependencies)
    /\ LET dep == dependencies[depIdx]
           r == fetch_source(dep.depname, dep.excludes, catalog[dep.depname])
       IN gen' = [active |-> TRUE, entries |-> r.entries, raised |-> r.raised]
    /\ UNCHANGED <<envVars, tag, dist_dir, dirEnsured, fileOpen, mode, output,
                   zip, remaining, curdir, depIdx, err, message, pc>>

\* line 173: archive.writestr(name, source)
DepWrite ==
    /\ pc = "deps"
    /\ gen.active
    /\ gen.entries # <<>>
    /\ Head(gen.entries).source # None
    /\ output' = Append(output, Chunk("entry", Head(gen.entries).path,
                                       Head(gen.entries).source,
                                       dependencies[depIdx].depname,
                                       "archive.writestr"))
    /\ gen' = [gen EXCEPT !.entries = Tail(@)]
    /\ UNCHANGED <<envVars, tag, dist_dir, dirEnsured, fileOpen, mode, zip,
                   remaining, curdir, depIdx, err, message, pc>>

\* line 173: writestr is handed None and raises TypeError on len(None)
DepWriteNone ==
    /\ pc = "deps"
    /\ gen.active
    /\ gen.entries # <<>>
    /\ Head(gen.entries).source = None
    /\ Raise("TypeError")
    /\ UNCHANGED <<envVars, tag, dist_dir, dirEnsured, fileOpen, mode, output,
                   zip, remaining, curdir, depIdx, gen, message>>

\* line 80: the assertion inside the generator fails
DepAssert ==
    /\ pc = "deps"
    /\ gen.active
    /\ gen.entries = <<>>
    /\ gen.raised
    /\ Raise("AssertionError")
    /\ UNCHANGED <<envVars, tag, dist_dir, dirEnsured, fileOpen, mode, output,
                   zip, remaining, curdir, depIdx, gen, message>>

\* the generator is exhausted, the outer loop moves on
DepEnd ==
    /\ pc = "deps"
    /\ gen.active
    /\ gen.entries = <<>>
    /\ ~gen.raised
    /\ gen' = NoGen
    /\ depIdx' = depIdx + 1
    /\ UNCHANGED <<envVars, tag, dist_dir, dirEnsured, fileOpen, mode, output,
                   zip, remaining, curdir, err, message, pc>>

\* the loop over self.dependencies is exhausted
DepsDone ==
    /\ pc = "deps"
    /\ ~gen.active
    /\ depIdx > Len(dependencies)
    /\ pc' = "archive_exit"
    /\ UNCHANGED <<envVars, tag, dist_dir, dirEnsured, fileOpen, mode, output,
                   zip, remaining, curdir, depIdx, gen, err, message>>

\* lines 93-94 at the end of the inner with: ZipFile.__exit__ closes the
\* archive, which writes the central directory; an exception keeps
\* propagating since __exit__ returns None
ArchiveExit ==
    /\ pc = "archive_exit"
    /\ zip' = ZipFileExit(zip)
    /\ output' = IF ZipFileExit(zip) = "closed" /\ zip = "open"
                 THEN Append(output, Chunk("central_directory", "", "", "", "archive.close"))
                 ELSE output
    /\ pc' = "file_exit"
    /\ UNCHANGED <<envVars, tag, dist_dir, dirEnsured, fileOpen, mode,
                   remaining, curdir, depIdx, gen, err, message>>

\* end of the outer with (line 135): the output file is closed
FileExit ==
    /\ pc = "file_exit"
    /\ fileOpen' = FALSE
    /\ pc' = IF err = None THEN "print" ELSE "failed"
    /\ UNCHANGED <<envVars, tag, dist_dir, dirEnsured, mode, output, zip,
                   remaining, curdir, depIdx, gen, err, message>>

\* line 174
PrintGenerated ==
    /\ pc = "print"
    /\ message' = "Generated " \o OutputName
    /\ pc' = "done"
    /\ UNCHANGED <<envVars, tag, dist_dir, dirEnsured, fileOpen, mode, output,
                   zip, remaining, curdir, depIdx, gen, err>>

Next ==
    \/ initialize_options \/ SetOptions \/ finalize_options
    \/ Makedirs \/ MakedirsFails \/ OpenOutput \/ Fchmod \/ WriteHeader
    \/ OpenArchive \/ SkipFile \/ WriteFile \/ WriteFileFails \/ StampInit
    \/ MissingVersion \/ WalkDone \/ DepStart \/ DepWrite \/ DepWriteNone
    \/ DepAssert \/ DepEnd \/ DepsDone \/ ArchiveExit \/ FileExit
    \/ PrintGenerated

Spec == Init /\ [][Next]_vars

----------------------------------------------------------------------------
(* A direct call of fetch_source *)

FetchCall ==
    /\ pc = "fetch_source"
    /\ fetchResult' = fetch_source(fetchCall.package, fetchCall.excludes,
                                   fetchCall.layout)
    /\ pc' = "fetched"
    /\ UNCHANGED <<tree, initSrc, catalog, fetchCall, tag, dist_dir, dirEnsured,
                   fileOpen, mode, output, zip, remaining, curdir, depIdx, gen,
                   err, message>>

NextFetch == FetchCall

SpecFetch == InitFetch /\ [][NextFetch]_vars

----------------------------------------------------------------------------
(* Vocabulary of the properties *)

ToolFile == File("dbsake", "distutils_ext.py")

PrimaryInitPath == "dbsake/__init__.py"

IsEntry(c) == c.kind = "entry"

IsTreeEntry(c) == IsEntry(c) /\ \E f \in tree : Path(f) = c.src

IsDepEntry(c) == IsEntry(c) /\ \E i \in 1..Len(dependencies) : dependencies[i].depname = c.src

\* the entry went through the stamping branch
WasStamped(c) == IsTreeEntry(c) /\ c.via = "archive.writestr"

SrcFile(c) == CHOOSE f \in tree : Path(f) = c.src

HasPrefix(s, p) == Len(p) <= Len(s) /\ SubSeq(s, 1, Len(p)) = p

HasSuffix(s, p) == Len(p) <= Len(s) /\ SubSeq(s, Len(s) - Len(p) + 1, Len(s)) = p

StartsWithAny(name, excludes) ==
    \E i \in 1..Len(excludes) : HasPrefix(name, excludes[i])

\* path is name with every "." turned into "/", followed by the suffix
IsPathOf(path, name, is_pkg) ==
    LET suffix == IF is_pkg THEN "/__init__.py" ELSE ".py" IN
    /\ Len(path) = Len(name) + Len(suffix)
    /\ \A i \in 1..Len(name) :
          SubSeq(path, i, i) = (IF SubSeq(name, i, i) = "." THEN "/" ELSE SubSeq(name, i, i))
    /\ SubSeq(path, Len(name) + 1, Len(path)) = suffix

\* index of the first line of ls that is a version line
RECURSIVE FirstVersionLine(_, _)
FirstVersionLine(ls, i) ==
    IF i > Len(ls) THEN 0
    ELSE IF HasPrefix(ls[i], "__version__ = ") THEN i
    ELSE FirstVersionLine(ls, i + 1)

Rank(p) ==
    CASE p = "initialize_options" -> 0
      [] p = "options" -> 1
      [] p = "finalize_options" -> 2
      [] p = "makedirs" -> 3
      [] p = "open" -> 4
      [] p = "fchmod" -> 5
      [] p = "header" -> 6
      [] p = "zipfile" -> 7
      [] p = "walk" -> 8
      [] p = "deps" -> 9
      [] p = "archive_exit" -> 10
      [] p = "file_exit" -> 11
      [] p = "print" -> 12
      [] p = "done" -> 13
      [] p = "failed" -> 13
      [] OTHER -> 14

----------------------------------------------------------------------------
(* Properties *)

\* C1: with the empty (default) tag, the bytes written for the primary init
\* entry are byte-for-byte the bytes read from dbsake/__init__.py.
C1_EmptyTagIsIdentity ==
    \A i \in 1..Len(output) :
        ( /\ IsEntry(output[i])
          /\ output[i].src = PrimaryInitPath
          /\ tag = ""
          /\ FirstVersionLine(SplitLines(initSrc[PrimaryInit]), 1) # 0 )
        => output[i].data = initSrc[PrimaryInit]

\* C2: with a non-empty tag the stamped bytes contain the tagged version
\* literal and every line other than the version line is unchanged, also
\* when the quoted literal occurs elsewhere in the file.
C2_OnlyVersionLineChanges ==
    \A i \in 1..Len(output) :
        ( /\ IsEntry(output[i])
          /\ output[i].src = PrimaryInitPath
          /\ tag # "" )
        => LET inLines == SplitLines(initSrc[PrimaryInit])
               outLines == SplitLines(output[i].data)
               k == FirstVersionLine(inLines, 1)
               literal == RStrip(SubSeq(inLines[k], 15, Len(inLines[k])))
               stamped == "__version__ = " \o SubSeq(literal, 1, Len(literal) - 1)
                              \o " " \o tag \o "'"
           IN /\ Len(outLines) = Len(inLines)
              /\ HasPrefix(outLines[k], stamped)
              /\ \A j \in 1..Len(inLines) : j # k => outLines[j] = inLines[j]

\* C3: when dbsake/__init__.py has no version line the run fails before any
\* archive entry has been written, in every walk order.
C3_MissingVersionBeforeAnyEntry ==
    ( /\ err = "IndexError"
      /\ curdir = TopDir
      /\ FirstVersionLine(SplitLines(initSrc[PrimaryInit]), 1) = 0 )
    => Entries = <<>>

\* C4: in a successful run the stamp is applied exactly once, to the entry
\* whose archive path is dbsake/__init__.py, and every other entry of the
\* tree carries the unmodified content of its file.
C4_StampedExactlyOnce ==
    pc = "done" =>
        /\ Cardinality({i \in 1..Len(output) : WasStamped(output[i])}) = 1
        /\ \A i \in 1..Len(output) :
              WasStamped(output[i]) => output[i].arcname = PrimaryInitPath
        /\ \A i \in 1..Len(output) :
              (IsTreeEntry(output[i]) /\ output[i].arcname # PrimaryInitPath)
                  => output[i].data = FileData(SrcFile(output[i]))

\* C5 as stated: after a successful run every .py file of the tree is in
\* the archive under its walk-relative path, except the tool's own source,
\* which is not in the archive.
C5_EveryPyUnderItsPath ==
    pc = "done" =>
        \A f \in tree :
            HasSuffix(f.name, ".py") =>
                IF f = ToolFile
                THEN \A i \in 1..Len(output) : IsEntry(output[i]) => output[i].src # Path(f)
                ELSE \E i \in 1..Len(output) :
                        /\ IsEntry(output[i])
                        /\ output[i].src = Path(f)
                        /\ output[i].arcname = Path(f)

\* C5 amended: after a successful run every .py file of the tree is in the
\* archive under its walk-relative path, except that a file named
\* __main__.py is stored under the bare name __main__.py, and except the
\* tool's own source, which is not in the archive.
C5_EveryPyPresentMainAtRoot ==
    pc = "done" =>
        \A f \in tree :
            HasSuffix(f.name, ".py") =>
                IF f = ToolFile
                THEN \A i \in 1..Len(output) :
                        IsEntry(output[i]) =>
                            output[i].src # Path(f) /\ output[i].arcname # Path(f)
                ELSE \E i \in 1..Len(output) :
                        /\ IsEntry(output[i])
                        /\ output[i].src = Path(f)
                        /\ output[i].arcname =
                              (IF f.name = "__main__.py" THEN "__main__.py" ELSE Path(f))

C5_Witness ==
    /\ pc = "done"
    /\ ToolFile \in tree
    /\ File("dbsake", "__main__.py") \in tree
    /\ \E i \in 1..Len(output) : IsEntry(output[i]) /\ output[i].arcname = "__main__.py"

\* C6: no two entries written in one run have the same archive path.
C6_ArchivePathsDistinct ==
    \A i, j \in 1..Len(output) :
        (i # j /\ IsEntry(output[i]) /\ IsEntry(output[j]))
            => output[i].arcname # output[j].arcname

\* C7: fetch_source never yields an entry without source text; when the
\* package's init file or a non-excluded module has no source, it raises.
C7_NeverYieldsMissingSource ==
    pc = "fetched" =>
        /\ \A i \in 1..Len(fetchResult.entries) : fetchResult.entries[i].source # None
        /\ ( \/ fetchCall.layout.init_source = None
             \/ \E i \in 1..Len(fetchCall.layout.modules) :
                   /\ fetchCall.layout.modules[i].source = None
                   /\ ~StartsWithAny(fetchCall.layout.modules[i].name, fetchCall.excludes) )
           => fetchResult.raised

\* the modules fetch_source is expected to yield: the discovered modules
\* that start with no excluded prefix, up to the first one without source
KeptModules ==
    LET kept == SelectSeq(fetchCall.layout.modules,
                          LAMBDA m : ~StartsWithAny(m.name, fetchCall.excludes))
        bad == {i \in 1..Len(kept) : kept[i].source = None}
        n == IF bad = {} THEN Len(kept)
             ELSE (CHOOSE i \in bad : \A j \in bad : i <= j) - 1
    IN [kept |-> kept, n |-> n]

YieldsInitThenKept ==
    LET r == fetchResult
        k == KeptModules
    IN /\ Len(r.entries) = 1 + k.n
       /\ r.entries[1].path = fetchCall.package \o "/__init__.py"
       /\ r.entries[1].source = fetchCall.layout.init_source
       /\ \A i \in 1..k.n :
             /\ IsPathOf(r.entries[i + 1].path, k.kept[i].name, k.kept[i].is_pkg)
             /\ r.entries[i + 1].source = k.kept[i].source
       /\ r.raised <=> (k.n < Len(k.kept))

\* C8 as stated: fetch_source yields exactly the package's init entry and
\* then one entry per discovered module that starts with no excluded
\* prefix, and no yielded path is the path of a module (the package
\* included) whose name starts with an excluded prefix.
C8_YieldsExactlyNonExcluded ==
    pc = "fetched" =>
        /\ Len(fetchResult.entries) =
              1 + Len(SelectSeq(fetchCall.layout.modules,
                                LAMBDA m : ~StartsWithAny(m.name, fetchCall.excludes)))
        /\ \A i \in 1..Len(fetchResult.entries) :
              /\ IsPathOf(fetchResult.entries[i].path, fetchCall.package, TRUE)
                    => ~StartsWithAny(fetchCall.package, fetchCall.excludes)
              /\ \A j \in 1..Len(fetchCall.layout.modules) :
                    IsPathOf(fetchResult.entries[i].path, fetchCall.layout.modules[j].name,
                             fetchCall.layout.modules[j].is_pkg)
                        => ~StartsWithAny(fetchCall.layout.modules[j].name, fetchCall.excludes)

\* C8 amended: fetch_source yields first the package's init entry, whether
\* or not the package's own name starts with an excluded prefix, then in
\* discovery order one entry per discovered submodule that starts with no
\* excluded prefix, with the path derived from the dotted name, and stops
\* with a failed assertion at the first such submodule without source; no
\* yielded submodule path is the path of an excluded module, and with the
\* excluded prefix pkg.tests no yielded path begins with pkg/tests.
C8_YieldsInitThenNonExcluded ==
    pc = "fetched" =>
        /\ YieldsInitThenKept
        /\ \A i \in 2..Len(fetchResult.entries) :
              \A j \in 1..Len(fetchCall.layout.modules) :
                  IsPathOf(fetchResult.entries[i].path, fetchCall.layout.modules[j].name,
                           fetchCall.layout.modules[j].is_pkg)
                      => ~StartsWithAny(fetchCall.layout.modules[j].name, fetchCall.excludes)
        /\ (\E e \in 1..Len(fetchCall.excludes) : fetchCall.excludes[e] = "pkg.tests")
              => \A i \in 1..Len(fetchResult.entries) :
                    ~HasPrefix(fetchResult.entries[i].path, "pkg/tests")

C8_Witness ==
    /\ pc = "fetched"
    /\ fetchCall.excludes = <<"pkg.tests">>
    /\ Len(fetchCall.layout.modules) = 3
    /\ Len(fetchResult.entries) = 2
    /\ ~fetchResult.raised

ChunkOrder ==
    /\ fileOpen => dirEnsured
    /\ mode # 0 => dirEnsured
    /\ output # <<>> => mode = 448
    /\ \A i \in 1..Len(output) :
          output[i].kind # "header" =>
              /\ i > 1
              /\ output[1].kind = "header"
              /\ HasPrefix(output[1].data, "#!/bin/sh\n")
              /\ HasSuffix(output[1].data, "exec ${python} $0 $@ || exit 5\n")
              /\ zip # "none"
    /\ (\E i \in 1..Len(output) : IsDepEntry(output[i])) => (remaining = {} /\ Rank(pc) >= 9)
    /\ \A i, j \in 1..Len(output) :
          (i < j /\ IsDepEntry(output[i])) => ~IsTreeEntry(output[j])
    /\ message # None =>
          /\ zip = "closed"
          /\ ~fileOpen
          /\ err = None
          /\ output[Len(output)].kind = "central_directory"
    /\ (mode # 0 /\ ~fileOpen) => zip = "closed"
    /\ err # None => message = None

\* C9: the phases of a run follow one another without a step back: the
\* directory is ensured before the file is opened, the owner rwx bits are
\* set before any byte is written, the whole header precedes every archive
\* entry, every tree entry precedes every dependency entry, and the
\* completion message appears only after the archive and then the file
\* were closed, never in a failed run.
C9_PhasesInOrder ==
    /\ []ChunkOrder
    /\ [][ \/ Rank(pc') > Rank(pc)
           \/ (pc' = pc /\ pc \in {"walk", "deps"}) ]_vars

C9_Witness ==
    /\ pc = "done"
    /\ message = "Generated dist/dbsake.sh"
    /\ \E i, j \in 1..Len(output) : IsTreeEntry(output[i]) /\ IsDepEntry(output[j])

RunEnded == pc \in {"done", "failed"}

\* C10: whenever a run that opened the output file ends, normally or with
\* a failure, the archive is closed and the output file is released; after
\* a failure nothing is retried or rolled back: what was written stays in
\* the output file and the exception reaches the caller.
C10_HandlesReleasedOnEveryExit ==
    /\ []( (RunEnded /\ mode # 0) =>
              /\ zip = "closed"
              /\ ~fileOpen
              /\ (pc = "failed" <=> err # None) )
    /\ [][ err # None =>
              /\ err' = err
              /\ Rank(pc') > Rank(pc)
              /\ Len(output') >= Len(output)
              /\ SubSeq(output', 1, Len(output)) = output
              /\ Entries' = Entries
              /\ mode' = mode
              /\ message' = None ]_vars

C10_Witness ==
    /\ pc = "failed"
    /\ err \in {"IndexError", "TypeError", "AssertionError", "IOError"}
    /\ Entries # <<>>
    /\ zip = "closed"
    /\ ~fileOpen

====
